---- MODULE Spec2Model ----
(***************************************************************************)
(* Brain wallet phrase generator and validator (src/src/lib.rs).           *)
(*                                                                         *)
(* Strings are sequences of one-character strings, so that splitting,      *)
(* trimming and concatenation are computed character by character.         *)
(* Spec     : one caller using random_phrase, validate_phrase and Display. *)
(* SpecConc : several threads inside validate_phrase, racing on the lazily *)
(*            initialised WORD_SET.                                        *)
(***************************************************************************)
EXTENDS Integers, Sequences, FiniteSets, TLC

\* ------------------------------------------------------------------ bounds
\* Longest caller-supplied phrase, in characters.
MaxLen == 4
\* Largest expected_no_of_words a caller passes.
MaxExpected == 3
\* Largest no_of_words passed to random_phrase.
MaxWords == 3
\* Number of threads calling validate_phrase concurrently.
NumThreads == 2

\* ------------------------------------------------------- characters, words
\* char::is_whitespace, restricted to ASCII.
Whitespace == {" ", "\t", "\n", "\r"}

IsWhitespace(c) == c \in Whitespace

\* The characters caller-supplied phrases are drawn from: a dictionary
\* letter, a letter no dictionary word has, and the whitespace characters.
Chars == {"a", "x"} \cup Whitespace

\* The dictionary: a sample of lowercase words standing for the 7,530 of
\* res/wordlist.json.  "aaa", "x", "ax" ... are words outside of it.
WORDS == << <<"a">>, <<"a", "a">> >>

\* All strings over Chars of length at most n.
StringsUpTo(n) == UNION {[1..k -> Chars] : k \in 0..n}

\* ------------------------------------------------------------ str helpers
\* str::trim_start: drops the leading whitespace characters.
RECURSIVE trim_start(_)
trim_start(s) ==
    IF s # <<>> /\ IsWhitespace(Head(s)) THEN trim_start(Tail(s)) ELSE s

\* str::split_whitespace: the maximal runs of non-whitespace characters,
\* in order.  cur is the token being read, acc the tokens read so far.
RECURSIVE SplitWhitespaceFrom(_, _, _)
SplitWhitespaceFrom(s, cur, acc) ==
    IF s = <<>>
    THEN IF cur = <<>> THEN acc ELSE Append(acc, cur)
    ELSE IF IsWhitespace(Head(s))
         THEN SplitWhitespaceFrom(Tail(s), <<>>,
                                  IF cur = <<>> THEN acc ELSE Append(acc, cur))
         ELSE SplitWhitespaceFrom(Tail(s), Append(cur, Head(s)), acc)

\* str::split(" "): the pieces between single spaces, empty pieces
\* included; the empty string has one (empty) piece.
RECURSIVE SplitSpaceFrom(_, _, _)
SplitSpaceFrom(s, cur, acc) ==
    IF s = <<>>
    THEN Append(acc, cur)
    ELSE IF Head(s) = " "
         THEN SplitSpaceFrom(Tail(s), <<>>, Append(acc, cur))
         ELSE SplitSpaceFrom(Tail(s), Append(cur, Head(s)), acc)

split_space(s) == SplitSpaceFrom(s, <<>>, <<>>)

\* Faulty variant: the phrase is split at every single space.
split_whitespace_single(s) == SplitSpaceFrom(s, <<>>, <<>>)

split_whitespace(s) == SplitWhitespaceFrom(s, <<>>, <<>>)

\* ---------------------------------------------------------- random_phrase
\* The fold of random_phrase: each chosen word is pushed after a space.
\* choices[i] is the index in WORDS that the rng picked at iteration i.
RECURSIVE FoldWords(_, _)
FoldWords(choices, acc) ==
    IF choices = <<>> THEN acc
    ELSE FoldWords(Tail(choices), acc \o <<" ">> \o WORDS[Head(choices)])

\* Faulty variant: the separator is not pushed.
RECURSIVE FoldWordsNoSep(_, _)
FoldWordsNoSep(choices, acc) ==
    IF choices = <<>> THEN acc
    ELSE FoldWordsNoSep(Tail(choices), acc \o WORDS[Head(choices)])

random_phrase_nosep(choices) == trim_start(FoldWordsNoSep(choices, <<>>))

\* Faulty variant: the leading space is not trimmed.
random_phrase_notrim(choices) == FoldWords(choices, <<>>)

\* Faulty variant: the separator is pushed after the word, and only the start is
\* trimmed.
RECURSIVE FoldWordsSepAfter(_, _)
FoldWordsSepAfter(choices, acc) ==
    IF choices = <<>> THEN acc
    ELSE FoldWordsSepAfter(Tail(choices), acc \o WORDS[Head(choices)] \o <<" ">>)

random_phrase_sepafter(choices) == trim_start(FoldWordsSepAfter(choices, <<>>))

random_phrase(choices) == trim_start(FoldWords(choices, <<>>))

\* ------------------------------------------------------------------ Error
Ok == [tag |-> "Ok"]

PhraseTooShort(n) == [tag |-> "PhraseTooShort", len |-> n]

WordNotFromDictionary(w) == [tag |-> "WordNotFromDictionary", word |-> w]

NoResult == [tag |-> "None"]

IsErr(r) == r.tag \in {"PhraseTooShort", "WordNotFromDictionary"}

\* usize formatted by {}: the decimal digits, most significant first.
Digit == <<"0", "1", "2", "3", "4", "5", "6", "7", "8", "9">>

RECURSIVE Decimal(_)
Decimal(n) ==
    IF n < 10 THEN <<Digit[n + 1]>>
    ELSE Decimal(n \div 10) \o <<Digit[(n % 10) + 1]>>

\* impl fmt::Display for Error: writeln! writes the formatted text and
\* then a newline.
fmt(e) ==
    IF e.tag = "PhraseTooShort"
    THEN <<"The phrase is too short (">> \o Decimal(e.len) \o <<")">> \o <<"\n">>
    ELSE <<"The word '">> \o e.word \o <<"' does not come from the dictionary.">>
         \o <<"\n">>

\* --------------------------------------------------------------- WORD_SET
\* WORDS.iter().cloned().collect(): every word inserted into a HashSet.
RECURSIVE Collect(_, _)
Collect(words, set) ==
    IF words = <<>> THEN set ELSE Collect(Tail(words), set \cup {Head(words)})

\* Faulty variant: the iteration stops one word early.
RECURSIVE CollectButLast(_, _)
CollectButLast(words, set) ==
    IF Len(words) <= 1 THEN set
    ELSE CollectButLast(Tail(words), set \cup {Head(words)})

\* ------------------------------------------------------- validate_phrase
\* The for loop of validate_phrase over the remaining tokens; count is
\* len so far.  Yields the error of the first token the set lacks, or
\* the final count.
RECURSIVE ValidateLoop(_, _, _)
ValidateLoop(tokens, count, set) ==
    IF tokens = <<>> THEN [tag |-> "Counted", len |-> count]
    ELSE LET counted == count + 1
         IN  IF Head(tokens) \notin set
             THEN WordNotFromDictionary(Head(tokens))
             ELSE ValidateLoop(Tail(tokens), counted, set)

\* Faulty variant: the comparison is <= instead of <.
validate_phrase_le(phrase, expected_no_of_words, set) ==
    LET r == ValidateLoop(split_whitespace(phrase), 0, set)
    IN  IF r.tag = "WordNotFromDictionary" THEN r
        ELSE IF r.len <= expected_no_of_words THEN PhraseTooShort(r.len)
        ELSE Ok

\* Faulty variant: the length is checked before the words are.
validate_phrase_lenfirst(phrase, expected_no_of_words, set) ==
    LET tokens == split_whitespace(phrase)
        r      == ValidateLoop(tokens, 0, set)
    IN  IF Len(tokens) < expected_no_of_words THEN PhraseTooShort(Len(tokens))
        ELSE IF r.tag = "WordNotFromDictionary" THEN r
        ELSE Ok

\* Faulty variant: the error carries the expected count instead of the actual one.
validate_phrase_expected(phrase, expected_no_of_words, set) ==
    LET r == ValidateLoop(split_whitespace(phrase), 0, set)
    IN  IF r.tag = "WordNotFromDictionary" THEN r
        ELSE IF r.len < expected_no_of_words
             THEN PhraseTooShort(expected_no_of_words)
        ELSE Ok

\* validate_phrase, given the contents of WORD_SET.
validate_phrase(phrase, expected_no_of_words, set) ==
    LET r == ValidateLoop(split_whitespace(phrase), 0, set)
    IN  IF r.tag = "WordNotFromDictionary" THEN r
        ELSE IF r.len < expected_no_of_words THEN PhraseTooShort(r.len)
        ELSE Ok

\* Faulty variant: the set is rebuilt at every use, and incompletely once
\* it has been built.
LazyDerefRebuild(state, set) ==
    IF state = "COMPLETE" THEN CollectButLast(WORDS, {}) ELSE Collect(WORDS, {})

\* lazy_static!: the first use runs the initialiser, later uses read what
\* it stored.
LazyDeref(state, set) ==
    IF state = "COMPLETE" THEN set ELSE Collect(WORDS, {})

\* Faulty variant: a caller arriving while the initialiser runs runs it too.
call_once_reentered(state) ==
    IF state = "COMPLETE" THEN "done" ELSE "run"

\* std::sync::Once::call_once, as lazy_static! uses it: what a caller does
\* on finding the Once in the given state.
call_once(state) ==
    IF state = "COMPLETE" THEN "done"
    ELSE IF state = "INCOMPLETE" THEN "run"
    ELSE "wait"

\* ------------------------------------------------------------------ state
VARIABLES
    p,          \* the caller's phrase: supplied, or returned by random_phrase
    expected,   \* the caller's expected_no_of_words
    choices,    \* the rng's picks in the random_phrase call that returned p
    origin,     \* "caller" or "random_phrase": where p comes from
    result,     \* what validate_phrase(p, expected) returned last
    prev,       \* what validate_phrase(p, expected) returned the time before
    message,    \* the last error displayed and the text written for it
    once,       \* state of the Once guarding WORD_SET
    WORD_SET,   \* contents of the lazily initialised set ({} before)
    builds,     \* number of times the initialiser of WORD_SET has completed
    pc,         \* per thread: position inside validate_phrase
    arg,        \* per thread: the arguments of its call
    toks,       \* per thread: tokens the split_whitespace iterator still holds
    len,        \* per thread: the local len
    word,       \* per thread: the loop variable word
    ret,        \* per thread: the value returned
    building    \* per thread: the set its initialiser run has built so far

callerVars == <<p, expected, choices, origin, result, prev, message>>

staticVars == <<once, WORD_SET, builds>>

threadVars == <<pc, arg, toks, len, word, ret, building>>

vars == <<p, expected, choices, origin, result, prev, message,
          once, WORD_SET, builds, pc, arg, toks, len, word, ret, building>>

Threads == 1..NumThreads

NoMessage == [err |-> NoResult, text |-> <<>>]

NoBuild == [set |-> {}, rest |-> <<>>]

ThreadsIdle ==
    /\ pc = [t \in Threads |-> "idle"]
    /\ arg = [t \in Threads |-> [phrase |-> <<>>, expected |-> 0]]
    /\ toks = [t \in Threads |-> <<>>]
    /\ len = [t \in Threads |-> 0]
    /\ word = [t \in Threads |-> <<>>]
    /\ ret = [t \in Threads |-> NoResult]
    /\ building = [t \in Threads |-> NoBuild]

StaticFresh ==
    /\ once = "INCOMPLETE"
    /\ WORD_SET = {}
    /\ builds = 0

\* ------------------------------------------------------- one caller (Spec)
Init ==
    /\ p \in StringsUpTo(MaxLen)
    /\ expected \in 0..MaxExpected
    /\ choices = <<>>
    /\ origin = "caller"
    /\ result = NoResult
    /\ prev = NoResult
    /\ message = NoMessage
    /\ StaticFresh
    /\ ThreadsIdle

\* let p = random_phrase(no_of_words), for every outcome of the rng.
RandomPhraseCall ==
    \E no_of_words \in 0..MaxWords :
      \E picked \in [1..no_of_words -> 1..Len(WORDS)] :
        /\ p' = random_phrase(picked)
        /\ choices' = picked
        /\ origin' = "random_phrase"
        /\ result' = NoResult
        /\ prev' = NoResult
        /\ UNCHANGED <<expected, message, staticVars, threadVars>>

\* validate_phrase(&p, expected).  WORD_SET is dereferenced inside the
\* loop, so it is initialised by the first call that has a token.
ValidatePhraseCall ==
    LET derefs == split_whitespace(p) # <<>>
        set    == LazyDeref(once, WORD_SET)
    IN  /\ result' = validate_phrase(p, expected, set)
        /\ prev' = result
        /\ once' = IF derefs THEN "COMPLETE" ELSE once
        /\ WORD_SET' = IF derefs THEN set ELSE WORD_SET
        /\ builds' = IF derefs /\ once # "COMPLETE" THEN builds + 1 ELSE builds
        /\ UNCHANGED <<p, expected, choices, origin, message, threadVars>>

\* format!("{}", e) for the error validate_phrase returned.
DisplayCall ==
    /\ IsErr(result)
    /\ message' = [err |-> result, text |-> fmt(result)]
    /\ UNCHANGED <<p, expected, choices, origin, result, prev,
                   staticVars, threadVars>>

Next ==
    \/ RandomPhraseCall
    \/ ValidatePhraseCall
    \/ DisplayCall

Spec == Init /\ [][Next]_vars

\* ------------------------------------- concurrent callers (SpecConc)
\* The phrases the threads pass: no token, one known word, one unknown
\* word, a known word followed by an unknown one.
ConcPhrases ==
    { <<>>, <<"a">>, <<"x">>, <<"a", "a", " ", "x">> }

InitConc ==
    /\ p = <<>>
    /\ expected = 0
    /\ choices = <<>>
    /\ origin = "caller"
    /\ result = NoResult
    /\ prev = NoResult
    /\ message = NoMessage
    /\ StaticFresh
    /\ ThreadsIdle

\* Thread t enters validate_phrase: len = 0 and the iterator is created.
Call(t) ==
    /\ pc[t] = "idle"
    /\ \E phrase \in ConcPhrases : \E expected_no_of_words \in {0, MaxExpected} :
         /\ arg' = [arg EXCEPT ![t] = [phrase |-> phrase,
                                       expected |-> expected_no_of_words]]
         /\ toks' = [toks EXCEPT ![t] = split_whitespace(phrase)]
    /\ len' = [len EXCEPT ![t] = 0]
    /\ pc' = [pc EXCEPT ![t] = "for"]
    /\ UNCHANGED <<callerVars, staticVars, word, ret, building>>

\* The head of the for loop: the next token, if any, becomes word and is
\* counted; without one the loop is left.
ForNext(t) ==
    /\ pc[t] = "for"
    /\ IF toks[t] = <<>>
       THEN /\ pc' = [pc EXCEPT ![t] = "check_len"]
            /\ UNCHANGED <<toks, word, len>>
       ELSE /\ word' = [word EXCEPT ![t] = Head(toks[t])]
            /\ toks' = [toks EXCEPT ![t] = Tail(toks[t])]
            /\ len' = [len EXCEPT ![t] = len[t] + 1]
            /\ pc' = [pc EXCEPT ![t] = "deref"]
    /\ UNCHANGED <<callerVars, staticVars, arg, ret, building>>

\* WORD_SET is dereferenced: the Once lets the thread through when the set
\* is initialised, makes it the initialiser when nobody is, and blocks it
\* while another thread initialises.
DerefPass(t) ==
    /\ pc[t] = "deref"
    /\ call_once(once) = "done"
    /\ pc' = [pc EXCEPT ![t] = "contains"]
    /\ UNCHANGED <<callerVars, staticVars, arg, toks, len, word, ret, building>>

DerefRun(t) ==
    /\ pc[t] = "deref"
    /\ call_once(once) = "run"
    /\ once' = "RUNNING"
    /\ building' = [building EXCEPT ![t] = [set |-> {}, rest |-> WORDS]]
    /\ pc' = [pc EXCEPT ![t] = "collect"]
    /\ UNCHANGED <<callerVars, WORD_SET, builds, arg, toks, len, word, ret>>

\* The initialiser inserts the next word into the set it is building.
CollectStep(t) ==
    /\ pc[t] = "collect"
    /\ building[t].rest # <<>>
    /\ building' = [building EXCEPT ![t] =
                      [set  |-> Collect(<<Head(building[t].rest)>>, building[t].set),
                       rest |-> Tail(building[t].rest)]]
    /\ UNCHANGED <<callerVars, staticVars, pc, arg, toks, len, word, ret>>

\* The initialiser stores the finished set.
Store(t) ==
    /\ pc[t] = "collect"
    /\ building[t].rest = <<>>
    /\ WORD_SET' = building[t].set
    /\ builds' = builds + 1
    /\ pc' = [pc EXCEPT ![t] = "stored"]
    /\ UNCHANGED <<callerVars, once, arg, toks, len, word, ret, building>>

\* The Once is marked complete, which releases the threads it blocks.
Complete(t) ==
    /\ pc[t] = "stored"
    /\ once' = "COMPLETE"
    /\ pc' = [pc EXCEPT ![t] = "contains"]
    /\ UNCHANGED <<callerVars, WORD_SET, builds, arg, toks, len, word, ret, building>>

\* if !WORD_SET.contains(word) { return Err(WordNotFromDictionary(word)) }
Contains(t) ==
    /\ pc[t] = "contains"
    /\ IF word[t] \notin WORD_SET
       THEN /\ ret' = [ret EXCEPT ![t] = WordNotFromDictionary(word[t])]
            /\ pc' = [pc EXCEPT ![t] = "done"]
       ELSE /\ pc' = [pc EXCEPT ![t] = "for"]
            /\ UNCHANGED ret
    /\ UNCHANGED <<callerVars, staticVars, arg, toks, len, word, building>>

\* if len < expected_no_of_words { return Err(PhraseTooShort(len)) }
\* return Ok(())
CheckLen(t) ==
    /\ pc[t] = "check_len"
    /\ ret' = [ret EXCEPT ![t] =
                 IF len[t] < arg[t].expected THEN PhraseTooShort(len[t]) ELSE Ok]
    /\ pc' = [pc EXCEPT ![t] = "done"]
    /\ UNCHANGED <<callerVars, staticVars, arg, toks, len, word, building>>

NextConc ==
    \E t \in Threads :
        \/ Call(t)
        \/ ForNext(t)
        \/ DerefPass(t)
        \/ DerefRun(t)
        \/ CollectStep(t)
        \/ Store(t)
        \/ Complete(t)
        \/ Contains(t)
        \/ CheckLen(t)

SpecConc == InitConc /\ [][NextConc]_vars

\* ------------------------------------------------- vocabulary of the claims
\* The members of the Dictionary.
Dictionary == {WORDS[i] : i \in DOMAIN WORDS}

\* A token of s is a maximal run of non-whitespace characters: <<i, j>> are
\* the positions of its first and last character.
TokenSpans(s) ==
    {sp \in (1..Len(s)) \X (1..Len(s)) :
        /\ sp[1] <= sp[2]
        /\ \A k \in sp[1]..sp[2] : s[k] \notin Whitespace
        /\ sp[1] = 1 \/ s[sp[1] - 1] \in Whitespace
        /\ sp[2] = Len(s) \/ s[sp[2] + 1] \in Whitespace}

TokenAt(s, sp) == SubSeq(s, sp[1], sp[2])

TokenCount(s) == Cardinality(TokenSpans(s))

AllTokensInDictionary(s) ==
    \A sp \in TokenSpans(s) : TokenAt(s, sp) \in Dictionary

\* The spans of the tokens of s that are not dictionary words.
Offending(s) == {sp \in TokenSpans(s) : TokenAt(s, sp) \notin Dictionary}

FirstOffending(s) ==
    CHOOSE sp \in Offending(s) : \A other \in Offending(s) : sp[1] <= other[1]

\* validate_phrase(p, expected) has returned, and result is what it returned.
Validated == result # NoResult

\* p is what random_phrase(Len(choices)) returned.
Generated == origin = "random_phrase"

\* s with the character c inserted after its first i characters.
InsertAt(s, i, c) == SubSeq(s, 1, i) \o <<c>> \o SubSeq(s, i + 1, Len(s))

\* Position i of s (0 = before everything) lies before, between or after the
\* words of s, not inside one.
OutsideWords(s, i) ==
    \/ i = 0
    \/ i = Len(s)
    \/ s[i] \in Whitespace
    \/ s[i + 1] \in Whitespace

\* Number of characters of random_phrase's result that precede its i-th word
\* when the words picked are joined by single spaces.
RECURSIVE Offset(_, _)
Offset(picked, i) ==
    IF i = 1 THEN 0
    ELSE Offset(picked, i - 1) + Len(WORDS[picked[i - 1]]) + 1

\* ------------------------------------------------------------------ claims
\* C1: validate_phrase(phrase, m) returns Ok exactly when every
\* whitespace-delimited token of the phrase is in the Dictionary and there
\* are at least m tokens; more than m tokens are accepted.
C1_OkIffAllWordsAndEnough ==
    Validated =>
        (result = Ok <=> (AllTokensInDictionary(p) /\ TokenCount(p) >= expected))

C1_Witness ==
    /\ Validated
    /\ origin = "caller"
    /\ result = Ok
    /\ expected >= 1
    /\ TokenCount(p) > expected

\* C2: every token of random_phrase(n) is in the Dictionary, and
\* validate_phrase(random_phrase(n), n) returns Ok whatever the rng picked.
C2_RoundTrip ==
    Generated =>
        /\ AllTokensInDictionary(p)
        /\ (Validated /\ expected = Len(choices)) => result = Ok

C2_Witness ==
    /\ Generated
    /\ Validated
    /\ Len(choices) = MaxExpected
    /\ expected = Len(choices)
    /\ choices[1] # choices[2]
    /\ result = Ok

\* C3 as stated: for all n >= 0, n = 0 included, random_phrase(n) split on
\* single spaces yields exactly n tokens.
C3_SplitCountIsN ==
    Generated => Len(split_space(p)) = Len(choices)

\* C3 amended: for n >= 1 the split yields exactly n tokens; for n = 0 the
\* phrase is empty and the split yields one token, the empty string.
C3_SplitCountIsNFromOne ==
    Generated =>
        /\ Len(choices) >= 1 => Len(split_space(p)) = Len(choices)
        /\ Len(choices) = 0 => split_space(p) = << <<>> >>

C3_Witness ==
    /\ Generated
    /\ Len(choices) = MaxWords
    /\ Len(split_space(p)) = MaxWords

\* C4: when the phrase has a token outside the Dictionary, validate_phrase
\* returns WordNotFromDictionary of the first such token, whatever the
\* minimum and the number of tokens; never PhraseTooShort.
C4_FirstUnknownWordWins ==
    (Validated /\ Offending(p) # {}) =>
        result = WordNotFromDictionary(TokenAt(p, FirstOffending(p)))

C4_Witness ==
    /\ Validated
    /\ TokenCount(p) = 2
    /\ expected > TokenCount(p)
    /\ Cardinality(Offending(p)) = 2
    /\ \E sp \in Offending(p) : TokenAt(p, sp) # TokenAt(p, FirstOffending(p))
    /\ result = WordNotFromDictionary(TokenAt(p, FirstOffending(p)))

\* C5: when every token is in the Dictionary and their number k is less
\* than the minimum m, validate_phrase returns PhraseTooShort(k); the count
\* carried is the total number of tokens, is less than m, and
\* PhraseTooShort is never returned for m = 0.
C5_TooShortCarriesCount ==
    Validated =>
        /\ (AllTokensInDictionary(p) /\ TokenCount(p) < expected)
               => result = PhraseTooShort(TokenCount(p))
        /\ result.tag = "PhraseTooShort"
               => /\ result.len = TokenCount(p)
                  /\ result.len < expected
                  /\ expected # 0

C5_Witness ==
    /\ Validated
    /\ TokenCount(p) = 1
    /\ expected = MaxExpected
    /\ result = PhraseTooShort(1)

\* C6: an error displays as exactly the template text, "The phrase is too
\* short (<n>)" or "The word '<w>' does not come from the dictionary.", with
\* nothing before or after it, no trailing newline in particular.
C6_DisplayIsTemplate ==
    message.err # NoResult =>
        message.text =
            IF message.err.tag = "PhraseTooShort"
            THEN <<"The phrase is too short (">> \o Decimal(message.err.len)
                 \o <<")">>
            ELSE <<"The word '">> \o message.err.word
                 \o <<"' does not come from the dictionary.">>

\* C7: random_phrase(n) is the n words picked, joined by exactly one space
\* between consecutive words, without leading or trailing whitespace and
\* without any carriage return or newline; random_phrase(0) is empty.
C7_JoinedBySingleSpaces ==
    Generated =>
        LET n == Len(choices)
        IN  /\ Len(p) = IF n = 0 THEN 0 ELSE Offset(choices, n + 1) - 1
            /\ \A i \in 1..n :
                 LET w == WORDS[choices[i]]
                     o == Offset(choices, i)
                 IN  /\ SubSeq(p, o + 1, o + Len(w)) = w
                     /\ i < n => p[o + Len(w) + 1] = " "
            /\ p # <<>> => (p[1] \notin Whitespace /\ p[Len(p)] \notin Whitespace)
            /\ \A k \in 1..Len(p) : p[k] \notin {"\r", "\n"}

C7_Witness ==
    /\ Generated
    /\ Len(choices) = MaxWords
    /\ choices[1] # choices[2]
    /\ Len(p) = Offset(choices, MaxWords + 1) - 1

\* C8 as stated: under every interleaving of concurrent validate_phrase
\* calls the lookup set is constructed exactly once (so it has been once a
\* caller has returned), no membership check sees an uninitialised or
\* partially built set, and every caller gets its sequential result.
C8_BuiltExactlyOnce ==
    /\ builds <= 1
    /\ \A t \in Threads :
         /\ pc[t] = "contains" =>
              (once = "COMPLETE" /\ builds = 1 /\ WORD_SET = Dictionary)
         /\ pc[t] = "done" =>
              /\ ret[t] = validate_phrase(arg[t].phrase, arg[t].expected, Dictionary)
              /\ builds = 1

\* C8 amended: the lookup set is constructed at most once, and exactly once
\* before the first membership check (a call whose phrase has no token never
\* touches the set); no membership check sees an uninitialised or partially
\* built set, and every caller gets its sequential result.
C8_BuiltOnceBeforeFirstUse ==
    /\ builds <= 1
    /\ \A t \in Threads :
         /\ pc[t] = "contains" =>
              (once = "COMPLETE" /\ builds = 1 /\ WORD_SET = Dictionary)
         /\ pc[t] = "done" =>
              /\ ret[t] = validate_phrase(arg[t].phrase, arg[t].expected, Dictionary)
              /\ TokenCount(arg[t].phrase) > 0 => builds = 1

\* Two first callers race: one is running the initialiser and has built
\* part of the set, the other is held at the Once before its membership
\* check.
C8_Witness ==
    \E t, u \in Threads :
        /\ t # u
        /\ pc[t] = "collect"
        /\ building[t].set # {}
        /\ building[t].rest # <<>>
        /\ pc[u] = "deref"
        /\ once = "RUNNING"

\* C9: once initialised, the lookup set holds exactly the Dictionary's
\* words and never changes again, and a repeated validate_phrase call with
\* the same phrase and minimum returns what the call before returned.
C9_SetFixedAndIdempotent ==
    [][ /\ once' = "COMPLETE" => WORD_SET' = Dictionary
        /\ once = "COMPLETE" => (once' = "COMPLETE" /\ WORD_SET' = WORD_SET)
        /\ prev' # NoResult => result' = prev' ]_vars

C9_Witness ==
    /\ Generated
    /\ once = "COMPLETE"
    /\ message.err.tag = "WordNotFromDictionary"
    /\ prev # NoResult
    /\ result = prev

\* C10: validate_phrase splits on runs of whitespace: a whitespace character
\* inserted before, between or after the words never changes the result,
\* and a phrase without any word has zero tokens (Ok for minimum 0,
\* PhraseTooShort(0) otherwise).
C10_WhitespaceRunsCollapse ==
    Validated =>
        /\ \A i \in 0..Len(p) : \A c \in Whitespace :
             OutsideWords(p, i) =>
                 validate_phrase(InsertAt(p, i, c), expected, Dictionary) = result
        /\ (\A k \in 1..Len(p) : p[k] \in Whitespace) =>
             result = IF expected = 0 THEN Ok ELSE PhraseTooShort(0)

C10_Witness ==
    /\ Validated
    /\ Len(p) = MaxLen
    /\ TokenCount(p) = 2
    /\ \E k \in 1..(Len(p) - 1) : p[k] \in Whitespace /\ p[k + 1] \in Whitespace
    /\ expected = 2
    /\ result = Ok

====
